---- MODULE Spec2Model ----
(***************************************************************************)
(* A model of the ski front end: the comment stripper and the lexical      *)
(* scanner of src/src/lexer.rs.  Text is a sequence of one-character       *)
(* strings.  One call of Lexer::lex is three kinds of step: Strip (the     *)
(* comment stripper and the set-up of the locals), Scan (one pass of the   *)
(* loop body, on one character) and Flush (the code after the loop).  The   *)
(* syntax tree and the code generation of src/src/ast.rs are modelled by   *)
(* operators on trees; one call of a render method is one step.            *)
(***************************************************************************)
EXTENDS Integers, Sequences, FiniteSets, TLC

VARIABLES input, text, idx, tokens, current_identifier, literal,
          integer_base, pos, pc, calls, node, target, entry, out, gpc,
          operator, overflow_checks

\* The variables of a call of Lexer::lex.
lvars == <<input, text, idx, tokens, current_identifier, literal,
           integer_base, pos, pc, calls>>

\* The variables of a call of the code generation.
gvars == <<node, target, entry, out, gpc, operator>>

\* overflow_checks: whether the build checks integer overflow (rustc's
\* -C overflow-checks; on in a debug build, off in a release build).  The
\* repository fixes no profile, so either build is possible.
vars == <<lvars, gvars, overflow_checks>>

(***************************************************************************)
(* Bounds of the model.                                                    *)
(***************************************************************************)
MaxLen == 4

MaxCommentLen == 8

MaxDigits == 2

MaxHexDigits == 3

MaxRun == 2

(***************************************************************************)
(* Character classes of the match arms.                                    *)
(***************************************************************************)
Digits == {"0", "1", "2", "3", "4", "5", "6", "7", "8", "9"}

HexLetters == {"a", "b", "c", "d", "e", "f", "A", "B", "C", "D", "E", "F"}

Blanks == {" ", "\r", "\t"}

Delimiters == {"{", "}", "(", ")", ";", "^"}

Doubling == {"&", "|", "*", "/", ">", "<"}

\* The pending buffers that `=` completes to a two-character operator.
CompoundHeads == {<<"=">>, <<"+">>, <<"-">>, <<"*">>, <<"/">>, <<"<">>, <<">">>}

\* The pending buffers the fallback arm flushes before appending.
BareOperators == {<<"=">>, <<"&">>, <<"|">>, <<"*">>, <<"/">>, <<"<">>,
                  <<">">>, <<"+">>, <<"-">>}

(***************************************************************************)
(* Token kinds.  Every kind is a record of the same shape: kind is the     *)
(* variant, text the payload of Identifier and Str, name the payload of    *)
(* Keyword, Symbol and Bool, int the payload of Int.  A u64 is written as   *)
(* its decimal digits, least significant first and without leading zeros   *)
(* (zero is the empty sequence), since it has more bits than the integers  *)
(* of the model checker.                                                   *)
(***************************************************************************)
RECURSIVE U64(_)
\* The u64 of a small natural number.
U64(n) == IF n = 0 THEN <<>> ELSE <<n % 10>> \o U64(n \div 10)

Identifier(t) == [kind |-> "Identifier", text |-> t, name |-> "", int |-> <<>>]

Keyword(n) == [kind |-> "Keyword", text |-> <<>>, name |-> n, int |-> <<>>]

Symbol(n) == [kind |-> "Symbol", text |-> <<>>, name |-> n, int |-> <<>>]

LiteralBool(n) == [kind |-> "Bool", text |-> <<>>, name |-> n, int |-> <<>>]

LiteralStr(t) == [kind |-> "Str", text |-> t, name |-> "", int |-> <<>>]

LiteralInt(v) == [kind |-> "Int", text |-> <<>>, name |-> "", int |-> v]

Token(k, p) == [token_kind |-> k, pos |-> p]

Pos_new == [row |-> 0, col |-> 0]

\* TokenKind::new: the keyword and symbol table, else an Identifier.
TokenKind_new(token) ==
    CASE token = <<"f", "n">> -> Keyword("Function")
      [] token = <<"l", "e", "t">> -> Keyword("Let")
      [] token = <<"c", "o", "n", "s", "t">> -> Keyword("Const")
      [] token = <<"f", "o", "r">> -> Keyword("For")
      [] token = <<"w", "h", "i", "l", "e">> -> Keyword("While")
      [] token = <<"l", "o", "o", "p">> -> Keyword("Loop")
      [] token = <<"r", "e", "t", "u", "r", "n">> -> Keyword("Return")
      [] token = <<"i", "f">> -> Keyword("If")
      [] token = <<"e", "l", "s", "e">> -> Keyword("Else")
      [] token = <<"i", "n">> -> Keyword("In")
      [] token = <<"{">> -> Symbol("OpenBracket")
      [] token = <<"}">> -> Symbol("CloseBracket")
      [] token = <<"(">> -> Symbol("OpenParen")
      [] token = <<")">> -> Symbol("CloseParen")
      [] token = <<"=">> -> Symbol("Equal")
      [] token = <<"=", "=">> -> Symbol("DoubleEqual")
      [] token = <<";">> -> Symbol("SemiColon")
      [] token = <<"'">> -> Symbol("SingleQuote")
      [] token = <<"\"">> -> Symbol("DoubleQuote")
      [] token = <<"+">> -> Symbol("Add")
      [] token = <<"-">> -> Symbol("Sub")
      [] token = <<"*">> -> Symbol("Mul")
      [] token = <<"/">> -> Symbol("Div")
      [] token = <<"*", "*">> -> Symbol("Pow")
      [] token = <<"+", "=">> -> Symbol("AddAssign")
      [] token = <<"-", "=">> -> Symbol("SubAssign")
      [] token = <<">">> -> Symbol("Gt")
      [] token = <<"<">> -> Symbol("Lt")
      [] token = <<">", "=">> -> Symbol("GtEq")
      [] token = <<"<", "=">> -> Symbol("LtEq")
      [] token = <<">", ">">> -> Symbol("Shr")
      [] token = <<"<", "<">> -> Symbol("Shl")
      [] token = <<"^">> -> Symbol("Xor")
      [] token = <<"&">> -> Symbol("BinaryAnd")
      [] token = <<"|">> -> Symbol("BinaryOr")
      [] token = <<"&", "&">> -> Symbol("LogicalAnd")
      [] token = <<"|", "|">> -> Symbol("LogicalOr")
      [] token = <<"t", "r", "u", "e">> -> LiteralBool("true")
      [] token = <<"f", "a", "l", "s", "e">> -> LiteralBool("false")
      [] OTHER -> Identifier(token)

(***************************************************************************)
(* The comment stripper.  Each regular expression is matched as the regex  *)
(* engine matches it: the leftmost match, every repetition greedy.  A      *)
(* match operator gives the index after the match that starts at i, or 0   *)
(* when none starts there.                                                 *)
(***************************************************************************)
RECURSIVE SkipNotStar(_, _)
\* [^*]* from j: the index after the longest run of characters other than *.
SkipNotStar(s, j) ==
    IF j <= Len(s) /\ s[j] # "*" THEN SkipNotStar(s, j + 1) ELSE j

RECURSIVE SkipStars(_, _)
\* \*+ from j, where s[j] is a star: the index after the run of stars.
SkipStars(s, j) ==
    IF j <= Len(s) /\ s[j] = "*" THEN SkipStars(s, j + 1) ELSE j

RECURSIVE BlockTail(_, _)
\* (?:[^/*][^*]*\*+)*/ from j, which follows a whole run of stars.  The
\* character at j is no star, so either it is the closing / or it opens one
\* more pass of the group; no other way to match exists, so greedy and
\* backtracking agree.
BlockTail(s, j) ==
    IF j > Len(s) THEN 0
    ELSE IF s[j] = "/" THEN j + 1
    ELSE LET k == SkipNotStar(s, j + 1)
         IN  IF k > Len(s) THEN 0 ELSE BlockTail(s, SkipStars(s, k))

\* multi_line: /\*[^*]*\*+(?:[^/*][^*]*\*+)*/
MultiLineMatch(s, i) ==
    IF i + 1 <= Len(s) /\ s[i] = "/" /\ s[i + 1] = "*"
    THEN LET k == SkipNotStar(s, i + 2)
         IN  IF k > Len(s) THEN 0 ELSE BlockTail(s, SkipStars(s, k))
    ELSE 0

RECURSIVE SkipNotEol(_, _)
\* [^\n\r]* from j.
SkipNotEol(s, j) ==
    IF j <= Len(s) /\ s[j] # "\n" /\ s[j] # "\r"
    THEN SkipNotEol(s, j + 1) ELSE j

\* single_line: //[^\n\r]*
SingleLineMatch(s, i) ==
    IF i + 1 <= Len(s) /\ s[i] = "/" /\ s[i + 1] = "/"
    THEN SkipNotEol(s, i + 2)
    ELSE 0

RECURSIVE ReplaceMultiLine(_, _)
\* multi_line.replace_all(s, "") from index i on.
ReplaceMultiLine(s, i) ==
    IF i > Len(s) THEN <<>>
    ELSE LET e == MultiLineMatch(s, i)
         IN  IF e # 0 THEN ReplaceMultiLine(s, e)
             ELSE <<s[i]>> \o ReplaceMultiLine(s, i + 1)

RECURSIVE ReplaceSingleLine(_, _)
\* single_line.replace_all(s, "") from index i on.
ReplaceSingleLine(s, i) ==
    IF i > Len(s) THEN <<>>
    ELSE LET e == SingleLineMatch(s, i)
         IN  IF e # 0 THEN ReplaceSingleLine(s, e)
             ELSE <<s[i]>> \o ReplaceSingleLine(s, i + 1)

\* strip_comments with the two passes in the other order.
strip_comments_lines_first(s) == ReplaceMultiLine(ReplaceSingleLine(s, 1), 1)

\* Lexer::strip_comments: block comments first, then line comments.
strip_comments(s) == ReplaceSingleLine(ReplaceMultiLine(s, 1), 1)

(***************************************************************************)
(* u64::from_str_radix on a buffer of digits: an error on the empty buffer *)
(* and on a value above u64::MAX, else the value.  The buffer holds only   *)
(* digits valid in the base, since the scanner appends no others.          *)
(***************************************************************************)
DigitVal(c) ==
    CASE c = "0" -> 0 [] c = "1" -> 1 [] c = "2" -> 2 [] c = "3" -> 3
      [] c = "4" -> 4 [] c = "5" -> 5 [] c = "6" -> 6 [] c = "7" -> 7
      [] c = "8" -> 8 [] c = "9" -> 9
      [] c \in {"a", "A"} -> 10 [] c \in {"b", "B"} -> 11
      [] c \in {"c", "C"} -> 12 [] c \in {"d", "D"} -> 13
      [] c \in {"e", "E"} -> 14 [] c \in {"f", "F"} -> 15

\* u64::MAX written in base 10 and in base 16.
U64MaxDec == <<"1", "8", "4", "4", "6", "7", "4", "4", "0", "7", "3", "7",
               "0", "9", "5", "5", "1", "6", "1", "5">>

U64MaxHex == <<"F", "F", "F", "F", "F", "F", "F", "F",
               "F", "F", "F", "F", "F", "F", "F", "F">>

RECURSIVE StripZeros(_)
StripZeros(d) ==
    IF d # <<>> /\ Head(d) = "0" THEN StripZeros(Tail(d)) ELSE d

RECURSIVE DigitsAbove(_, _)
\* Of two digit strings of one length, whether a is the greater number.
DigitsAbove(a, b) ==
    IF a = <<>> THEN FALSE
    ELSE IF DigitVal(Head(a)) # DigitVal(Head(b))
         THEN DigitVal(Head(a)) > DigitVal(Head(b))
         ELSE DigitsAbove(Tail(a), Tail(b))

\* Whether the checked multiply-and-add of from_str_radix overflows u64.
Overflows(d, base) ==
    LET sig == StripZeros(d)
        max == IF base = 16 THEN U64MaxHex ELSE U64MaxDec
    IN  \/ Len(sig) > Len(max)
        \/ Len(sig) = Len(max) /\ DigitsAbove(sig, max)

RECURSIVE MulAdd(_, _, _)
\* The u64 v * base + carry, digit by digit from the least significant.
MulAdd(v, base, carry) ==
    IF v = <<>>
    THEN IF carry = 0 THEN <<>>
         ELSE <<carry % 10>> \o MulAdd(<<>>, base, carry \div 10)
    ELSE LET x == Head(v) * base + carry
         IN  <<x % 10>> \o MulAdd(Tail(v), base, x \div 10)

RECURSIVE RadixValue(_, _, _)
\* The digit loop of from_str_radix: acc * base + digit, left to right.
RadixValue(d, base, acc) ==
    IF d = <<>> THEN acc
    ELSE RadixValue(Tail(d), base, MulAdd(acc, base, DigitVal(Head(d))))

\* from_str_radix giving zero where it gives an error.
from_str_radix_or_zero(d, base) ==
    IF d = <<>> \/ Overflows(d, base)
    THEN [ok |-> TRUE, val |-> U64(0)]
    ELSE [ok |-> TRUE, val |-> RadixValue(d, base, U64(0))]

from_str_radix(d, base) ==
    IF d = <<>> \/ Overflows(d, base)
    THEN [ok |-> FALSE, val |-> U64(0)]
    ELSE [ok |-> TRUE, val |-> RadixValue(d, base, U64(0))]

(***************************************************************************)
(* The scanner.  A scanner state is the record of lex's locals and the     *)
(* Lexer's pos; fault is set when the call panics (unimplemented!(), an    *)
(* unwrap of a parse error, an overflow of a u16 position field in a build *)
(* that checks overflow), after which the call returns nothing.  In a      *)
(* build without overflow checks a u16 position field wraps to 0.          *)
(***************************************************************************)
U16Max == 65535

Fault(st) == [st EXCEPT !.fault = TRUE]

\* tokens.push(Token { token_kind: k, pos: self.pos })
Push(st, k) == [st EXCEPT !.tokens = Append(@, Token(k, st.pos))]

\* if current_identifier != "" { tokens.push(TokenKind::new(current_identifier)) }
PushPending(st) ==
    IF st.cur # <<>> THEN Push(st, TokenKind_new(st.cur)) ELSE st

\* The same, followed by current_identifier = "".
FlushPending(st) == [PushPending(st) EXCEPT !.cur = <<>>]

\* LiteralType::Str: a quote closes the literal, any other character joins it.
StrArm(st, c) ==
    IF c = "\""
    THEN [Push(st, LiteralStr(st.cur)) EXCEPT !.cur = <<>>, !.literal = "None"]
    ELSE [st EXCEPT !.cur = st.cur \o <<c>>]

\* ' ' | '\r' | '\t'
BlankArm(st) == FlushPending(st)

\* The newline arm with the row advanced before the flush.
NewlineArmAdvanceFirst(st) ==
    IF st.pos.row = U16Max /\ overflow_checks THEN Fault(st)
    ELSE FlushPending([st EXCEPT
             !.pos = [row |-> (st.pos.row + 1) % (U16Max + 1), col |-> 0]])

\* '\n': flush, then the row advances and the column restarts.  At the
\* largest u16 the addition panics where overflow is checked and wraps to 0
\* where it is not.
NewlineArm(st) ==
    LET f == FlushPending(st)
    IN  IF f.pos.row = U16Max /\ overflow_checks THEN Fault(f)
        ELSE [f EXCEPT !.pos = [row |-> (f.pos.row + 1) % (U16Max + 1),
                                col |-> 0]]

\* The delimiter arm without the flush of the pending buffer.
DelimiterArmNoFlush(st, c) == Push(st, TokenKind_new(<<c>>))

\* '{' | '}' | '(' | ')' | ';' | '^'
DelimiterArm(st, c) == Push(FlushPending(st), TokenKind_new(<<c>>))

\* '+' and '-': the pending buffer is pushed and the sign is held back.
SignArm(st, c) == [PushPending(st) EXCEPT !.cur = <<c>>]

\* '"': the literal opens; the pending buffer is left as it is.
QuoteArm(st) == [st EXCEPT !.literal = "Str"]

\* '='
EqualArm(st) ==
    IF st.cur \in CompoundHeads
    THEN [Push(st, TokenKind_new(st.cur \o <<"=">>)) EXCEPT !.cur = <<>>]
    ELSE [PushPending(st) EXCEPT !.cur = <<"=">>]

\* double_identifier! without the doubling branch.
double_identifier_never(i, st) == [PushPending(st) EXCEPT !.cur = <<i>>]

\* double_identifier!: '&' '|' '*' '/' '>' '<'
double_identifier(i, st) ==
    IF st.cur = <<i>>
    THEN [Push(st, TokenKind_new(<<i, i>>)) EXCEPT !.cur = <<>>]
    ELSE [PushPending(st) EXCEPT !.cur = <<i>>]

\* The digit arm with a digit joining a pending buffer.
DigitArmJoinsPending(st, c) ==
    IF st.cur # <<>> THEN [st EXCEPT !.cur = st.cur \o <<c>>]
    ELSE [st EXCEPT !.literal = "Int", !.cur = <<c>>]

\* '0'..='9' in the Normal rules: the integer literal opens.
DigitArm(st, c) ==
    [FlushPending([st EXCEPT !.literal = "Int"]) EXCEPT !.cur = <<c>>]

\* Any other character: a pending bare operator is flushed, then c is appended.
FallbackArm(st, c) ==
    LET f == IF st.cur \in BareOperators THEN FlushPending(st) ELSE st
    IN  [f EXCEPT !.cur = f.cur \o <<c>>]

\* The second match of the loop body: the Normal rules.
NormalArm(st, c) ==
    CASE c \in Blanks -> BlankArm(st)
      [] c = "\n" -> NewlineArm(st)
      [] c \in Delimiters -> DelimiterArm(st, c)
      [] c \in {"+", "-"} -> SignArm(st, c)
      [] c = "\"" -> QuoteArm(st)
      [] c = "=" -> EqualArm(st)
      [] c \in Doubling -> double_identifier(c, st)
      [] c \in Digits -> DigitArm(st, c)
      [] OTHER -> FallbackArm(st, c)

\* The `_` arm without the reset of the base.
CloseIntKeepsBase(st) ==
    LET r == from_str_radix(st.cur, st.base)
    IN  IF ~r.ok THEN Fault(st)
        ELSE [Push(st, LiteralInt(r.val)) EXCEPT
                 !.cur = <<>>, !.literal = "None"]

\* The `_` arm with the literal always parsed in base 10.
CloseIntBase10(st) ==
    LET r == from_str_radix(st.cur, 10)
    IN  IF ~r.ok THEN Fault(st)
        ELSE [Push(st, LiteralInt(r.val)) EXCEPT
                 !.base = 10, !.cur = <<>>, !.literal = "None"]

\* The `_` arm of LiteralType::Int: the literal closes and is parsed.
CloseInt(st) ==
    LET r == from_str_radix(st.cur, st.base)
    IN  IF ~r.ok THEN Fault(st)
        ELSE [Push(st, LiteralInt(r.val)) EXCEPT
                 !.base = 10, !.cur = <<>>, !.literal = "None"]

\* IntArm with the closing character dropped instead of re-dispatched.
IntArmNoRedispatch(st, c) ==
    CASE c \in Digits -> [st EXCEPT !.cur = st.cur \o <<c>>]
      [] c \in HexLetters ->
            IF st.base = 16 THEN [st EXCEPT !.cur = st.cur \o <<c>>]
            ELSE Fault(st)
      [] c = "x" ->
            IF Len(st.cur) = 1 THEN [st EXCEPT !.cur = <<>>, !.base = 16]
            ELSE Fault(st)
      [] OTHER -> CloseInt(st)

\* LiteralType::Int: digits join, hex letters join in base 16, x after one
\* character switches to base 16, anything else closes the literal and is
\* then handled by the Normal rules.
IntArm(st, c) ==
    CASE c \in Digits -> [st EXCEPT !.cur = st.cur \o <<c>>]
      [] c \in HexLetters ->
            IF st.base = 16 THEN [st EXCEPT !.cur = st.cur \o <<c>>]
            ELSE Fault(st)
      [] c = "x" ->
            IF Len(st.cur) = 1 THEN [st EXCEPT !.cur = <<>>, !.base = 16]
            ELSE Fault(st)
      [] OTHER ->
            LET closed == CloseInt(st)
            IN  IF closed.fault THEN closed ELSE NormalArm(closed, c)

\* self.pos.col += 1: at the largest u16 the addition panics where overflow
\* is checked and wraps to 0 where it is not.
Advance(st) ==
    IF st.pos.col = U16Max /\ overflow_checks THEN Fault(st)
    ELSE [st EXCEPT !.pos = [row |-> st.pos.row,
                             col |-> (st.pos.col + 1) % (U16Max + 1)]]

\* One pass of the loop body on character c.
LexChar(st, c) ==
    LET a == Advance(st)
    IN  IF a.fault THEN a
        ELSE CASE a.literal = "Str" -> StrArm(a, c)
               [] a.literal = "Int" -> IntArm(a, c)
               [] OTHER -> NormalArm(a, c)

\* The match after the loop without its last arm: a pending identifier,
\* keyword or operator is dropped at the end of the input.
LexEndDropsPending(st) ==
    CASE st.literal = "Int" ->
            LET r == from_str_radix(st.cur, st.base)
            IN  IF ~r.ok THEN Fault(st) ELSE Push(st, LiteralInt(r.val))
      [] st.literal = "Str" -> Push(st, LiteralStr(st.cur))
      [] OTHER -> st

\* The match after the loop: what is pending becomes the last token.
LexEnd(st) ==
    CASE st.literal = "Int" ->
            LET r == from_str_radix(st.cur, st.base)
            IN  IF ~r.ok THEN Fault(st) ELSE Push(st, LiteralInt(r.val))
      [] st.literal = "Str" -> Push(st, LiteralStr(st.cur))
      [] OTHER -> PushPending(st)

\* The locals of lex as they are before the loop, with the Lexer's pos p.
Locals(p) ==
    [tokens |-> <<>>, cur |-> <<>>, literal |-> "None", base |-> 10,
     pos |-> p, fault |-> FALSE]

RECURSIVE LexLoop(_, _, _)
\* The loop over the characters of t from index i, stopped by a panic.
LexLoop(st, t, i) ==
    IF st.fault \/ i > Len(t) THEN st
    ELSE LexLoop(LexChar(st, t[i]), t, i + 1)

\* The loop and the match after it, on comment-stripped text t, by a Lexer
\* whose pos is p: the scanner state at the return (fault: the call panicked
\* and returns nothing).
Scanner(p, t) ==
    LET st == LexLoop(Locals(p), t, 1)
    IN  IF st.fault THEN st ELSE LexEnd(st)

\* Lexer::lex on s by a Lexer whose pos is p.
Lex(p, s) == Scanner(p, strip_comments(s))

\* The character of a decimal digit.
DigitChar(n) ==
    CASE n = 0 -> "0" [] n = 1 -> "1" [] n = 2 -> "2" [] n = 3 -> "3"
      [] n = 4 -> "4" [] n = 5 -> "5" [] n = 6 -> "6" [] n = 7 -> "7"
      [] n = 8 -> "8" [] n = 9 -> "9"

\* u64::to_string: the decimal digits, most significant first, 0 for zero.
to_string(v) ==
    IF v = <<>> THEN <<"0">>
    ELSE [i \in 1..Len(v) |-> DigitChar(v[Len(v) + 1 - i])]

(***************************************************************************)
(* The syntax tree of src/src/ast.rs.  A node is a record of one shape:    *)
(* kind is the variant of Expr, op the operator of Unary and Binary, name  *)
(* the text or name a node carries, int the value of Int, lit the payload  *)
(* of Literal, params the parameter names of FuncDef, kids the child nodes *)
(* in the order of the struct's fields.                                    *)
(***************************************************************************)
Node(k) ==
    [kind |-> k, op |-> "", name |-> <<>>, int |-> U64(0), lit |-> "",
     params |-> <<>>, kids |-> <<>>]

Expr_Int(v) == [Node("Int") EXCEPT !.int = v]

Expr_Str(s) == [Node("Str") EXCEPT !.name = s]

Expr_Variable(v) == [Node("Variable") EXCEPT !.name = v]

Expr_Unary(op, child) == [Node("Unary") EXCEPT !.op = op, !.kids = <<child>>]

Expr_Binary(op, left, right) ==
    [Node("Binary") EXCEPT !.op = op, !.kids = <<left, right>>]

Expr_Literal(l) == [Node("Literal") EXCEPT !.lit = l]

Expr_Return(e) == [Node("Return") EXCEPT !.kids = <<e>>]

Expr_VariableDecl(name, value) ==
    [Node("VariableDecl") EXCEPT !.name = name, !.kids = <<value>>]

Expr_ConstDecl(name, value) ==
    [Node("ConstDecl") EXCEPT !.name = name, !.kids = <<value>>]

Expr_If(cond, then, else_) ==
    [Node("If") EXCEPT !.kids = <<cond, then, else_>>]

Expr_FuncDef(name, params, body) ==
    [Node("FuncDef") EXCEPT !.name = name, !.params = params,
                            !.kids = <<body>>]

Expr_FuncCall(func_name, params) ==
    [Node("FuncCall") EXCEPT !.name = func_name, !.kids = params]

Expr_While(cond, body) == [Node("While") EXCEPT !.kids = <<cond, body>>]

Expr_Loop(body) == [Node("Loop") EXCEPT !.kids = <<body>>]

Expr_For(item, container, body) ==
    [Node("For") EXCEPT !.name = item, !.kids = <<container, body>>]

Expr_Continue == Node("Continue")

Expr_Break == Node("Break")

Expr_Block(children) == [Node("Block") EXCEPT !.kids = children]

(***************************************************************************)
(* Code generation.  A call returns its text or panics: ok tells which.    *)
(***************************************************************************)
Ok(t) == [ok |-> TRUE, text |-> t]

\* unimplemented!() returning the empty text instead of panicking.
UnimplementedReturnsEmpty == Ok(<<>>)

\* unimplemented!(): the call panics and returns nothing.
Unimplemented == [ok |-> FALSE, text |-> <<>>]

RECURSIVE Format(_)
\* format! on arguments evaluated in order: the first panic ends the call,
\* else the pieces are concatenated.
Format(parts) ==
    IF parts = <<>> THEN Ok(<<>>)
    ELSE IF ~Head(parts).ok THEN Unimplemented
    ELSE LET rest == Format(Tail(parts))
         IN  IF ~rest.ok THEN Unimplemented
             ELSE Ok(Head(parts).text \o rest.text)

RECURSIVE Join(_, _)
\* [String]::join: the texts ts with sep between neighbours.
Join(ts, sep) ==
    IF ts = <<>> THEN <<>>
    ELSE IF Len(ts) = 1 THEN ts[1]
    ELSE ts[1] \o sep \o Join(Tail(ts), sep)

UnaryOpKind_compile(op, t) ==
    CASE op = "Minus" -> <<"-">>
      [] op = "LogicalNot" -> <<"N", "O", "T">>
      [] op = "BitwiseNot" -> <<"~">>

BinaryOpKind_compile(op, t) ==
    CASE op = "Add" -> <<"+">>
      [] op = "Sub" -> <<"-">>
      [] op = "Mul" -> <<"*">>
      [] op = "Div" -> <<"/">>
      [] op = "Assign" -> <<"E", "Q", "U">>
      [] op = "Eq" -> <<"=", "=">>
      [] op = "Ne" -> <<"N", "E", "Q">>
      [] op = "Gt" -> <<"G", "T", "R">>
      [] op = "Lt" -> <<"L", "S", "S">>
      [] op = "GtEq" -> <<"G", "E", "Q">>
      [] op = "LtEq" -> <<"L", "E", "Q">>
      [] op = "Shr" -> <<">", ">">>
      [] op = "Shl" -> <<"<", "<">>
      [] op = "Xor" -> <<"^">>
      [] op = "LogicalAnd" -> <<"&", "&">>
      [] op = "LogicalOr" -> <<"|", "|">>
      [] op = "BinaryAnd" -> <<"&">>
      [] op = "BinaryOr" -> <<"|">>
      [] OTHER -> <<"u", "n", "e", "x", "p", "e", "c", "t", "e", "d", " ",
                    "s", "y", "m", "b", "o", "l", " ", "t", "y", "p", "e">>

\* BinaryOpKind::from_token on a token kind: Ok(op) for a Symbol whose
\* variant one of the arms names, else one of the two error texts.
BinaryOpKind_from_token(t) ==
    IF t.kind = "Symbol"
    THEN IF t.name \in {"Add", "Sub", "Mul", "Div", "Assign", "Eq", "Ne",
                        "Gt", "Lt", "GtEq", "LtEq", "Shr", "Shl", "Xor",
                        "LogicalAnd", "LogicalOr", "BinaryAnd", "BinaryOr"}
         THEN [ok |-> TRUE, op |-> t.name, err |-> ""]
         ELSE [ok |-> FALSE, op |-> "", err |-> "unexpected symbol type"]
    ELSE [ok |-> FALSE, op |-> "", err |-> "unexpected token type"]

\* Literal::compile.
Literal_compile(l, t) == Unimplemented

RECURSIVE Expr_compile(_, _)

\* Vec<Expr>::compile with the elements taken from the last to the first.
Vec_compile_reversed(v, t) ==
    LET rs == [i \in 1..Len(v) |-> Expr_compile(v[Len(v) + 1 - i], t)]
    IN  IF \E i \in 1..Len(v) : ~rs[i].ok THEN Unimplemented
        ELSE Ok(Join([i \in 1..Len(v) |-> rs[i].text], <<"\n">>))

\* Vec<Expr>::compile: every element rendered in order, joined by "\n".
Vec_compile(v, t) ==
    LET rs == [i \in 1..Len(v) |-> Expr_compile(v[i], t)]
    IN  IF \E i \in 1..Len(v) : ~rs[i].ok THEN Unimplemented
        ELSE Ok(Join([i \in 1..Len(v) |-> rs[i].text], <<"\n">>))

UnaryExpr_compile(u, t) ==
    Format(<<Ok(UnaryOpKind_compile(u.op, t)), Expr_compile(u.kids[1], t)>>)

BinaryExpr_compile(b, t) ==
    Format(<<Ok(<<"\"", "%">>), Expr_compile(b.kids[1], t),
             Ok(<<"%", "\"", " ">>), Ok(BinaryOpKind_compile(b.op, t)),
             Ok(<<" ", "\"", "%">>), Expr_compile(b.kids[2], t),
             Ok(<<"%", "\"">>)>>)

\* FuncCall::compile: a fixed text; params is not rendered.
FuncCall_compile(c, t) ==
    Ok(<<"(", "1", ",", " ", "2", ",", " ", "3", ",", " ", "4", ")">>)

If_compile(f, t) ==
    Format(<<Ok(<<"I", "f", " ">>), Expr_compile(f.kids[1], t),
             Ok(<<" ", "(", " ", "\n", " ">>), Expr_compile(f.kids[2], t),
             Ok(<<" ", ")", " ", "\n", " ", "E", "L", "S", "E", " ", "(",
                  " ">>),
             Expr_compile(f.kids[3], t),
             Ok(<<" ", "\n", " ", ")", " ", "\n">>)>>)

For_compile(f, t) ==
    Format(<<Ok(<<"F", "O", "R", " ", "%", "%">>), Ok(f.name),
             Ok(<<" ", "I", "N", " ">>), Expr_compile(f.kids[1], t),
             Ok(<<" ", "D", "O", " ", "(", "\n">>),
             Expr_compile(f.kids[2], t), Ok(<<")", "\n">>)>>)

Loop_compile(l, t) ==
    Format(<<Ok(<<":", "L", "O", "O", "P", "\n">>),
             Expr_compile(l.kids[1], t),
             Ok(<<"\n", "g", "o", "t", "o", " ", ":", "L", "O", "O", "P">>)>>)

\* VariableDecl::compile without the line break at the end.
VariableDecl_compile_unterminated(v, t) ==
    Format(<<Ok(<<"s", "e", "t", " ">>), Ok(v.name), Ok(<<"=">>),
             Expr_compile(v.kids[1], t)>>)

VariableDecl_compile(v, t) ==
    Format(<<Ok(<<"s", "e", "t", " ">>), Ok(v.name), Ok(<<"=">>),
             Expr_compile(v.kids[1], t), Ok(<<"\n">>)>>)

\* Expr::compile: the match on the variant.
Expr_compile(e, t) ==
    CASE e.kind = "Int" -> Ok(to_string(e.int))
      [] e.kind = "Str" -> Ok(e.name)
      [] e.kind = "Variable" -> Ok(e.name)
      [] e.kind = "Unary" -> UnaryExpr_compile(e, t)
      [] e.kind = "Binary" -> BinaryExpr_compile(e, t)
      [] e.kind = "Literal" -> Literal_compile(e.lit, t)
      [] e.kind = "Return" -> Unimplemented
      [] e.kind = "VariableDecl" -> VariableDecl_compile(e, t)
      [] e.kind = "ConstDecl" -> Unimplemented
      [] e.kind = "If" -> If_compile(e, t)
      [] e.kind = "FuncDef" -> Unimplemented
      [] e.kind = "FuncCall" -> FuncCall_compile(e, t)
      [] e.kind = "While" -> Unimplemented
      [] e.kind = "Loop" -> Unimplemented
      [] e.kind = "For" -> For_compile(e, t)
      [] e.kind = "Continue" -> Unimplemented
      [] e.kind = "Break" -> Unimplemented
      [] e.kind = "Block" -> Vec_compile(e.kids, t)

\* compile_asm, compile_dos and compile_bash, of every node type.
compile_asm(e) == Unimplemented

compile_dos(e) == Unimplemented

compile_bash(e) == Unimplemented

(***************************************************************************)
(* The state machine.                                                      *)
(***************************************************************************)
State ==
    [tokens |-> tokens, cur |-> current_identifier, literal |-> literal,
     base |-> integer_base, pos |-> pos, fault |-> FALSE]

Become(st) ==
    /\ tokens' = st.tokens
    /\ current_identifier' = st.cur
    /\ literal' = st.literal
    /\ integer_base' = st.base
    /\ pos' = st.pos

\* Sequences over alphabet A of length at most n.
Strings(A, n) == UNION {[1..k -> A] : k \in 0..n}

\* BinaryOpKind::from_token has not been called.
NoOperator ==
    [called |-> FALSE, arg |-> Identifier(<<>>),
     result |-> [ok |-> FALSE, op |-> "", err |-> ""]]

\* No tree is being rendered.
NoGeneration ==
    /\ node = Expr_Block(<<>>)
    /\ target = "Batch"
    /\ entry = ""
    /\ out = <<>>
    /\ gpc = "idle"
    /\ operator = NoOperator

\* A new Lexer (Lexer::new) about to lex one input drawn from S.
InitOn(S) ==
    /\ overflow_checks \in BOOLEAN
    /\ input \in S
    /\ text = <<>>
    /\ idx = 0
    /\ tokens = <<>>
    /\ current_identifier = <<>>
    /\ literal = "None"
    /\ integer_base = 10
    /\ pos = Pos_new
    /\ pc = "start"
    /\ calls = 0
    /\ NoGeneration

\* The head of lex: the comments are stripped and the locals set up.
Strip ==
    /\ pc = "start"
    /\ text' = strip_comments(input)
    /\ idx' = 1
    /\ Become(Locals(pos))
    /\ pc' = "scan"
    /\ UNCHANGED <<input, calls, gvars, overflow_checks>>

\* One pass of the loop body.
Scan ==
    /\ pc = "scan"
    /\ idx <= Len(text)
    /\ LET st == LexChar(State, text[idx])
       IN  /\ Become(st)
           /\ pc' = IF st.fault THEN "panic" ELSE "scan"
    /\ idx' = idx + 1
    /\ UNCHANGED <<input, text, calls, gvars, overflow_checks>>

\* The end of the input: the pending state is flushed and lex returns.
Flush ==
    /\ pc = "scan"
    /\ idx > Len(text)
    /\ LET st == LexEnd(State)
       IN  /\ Become(st)
           /\ pc' = IF st.fault THEN "panic" ELSE "done"
    /\ UNCHANGED <<input, text, idx, calls, gvars, overflow_checks>>

Next == Strip \/ Scan \/ Flush

(***************************************************************************)
(* Specifications.  They share Next and differ in the inputs lexed.        *)
(***************************************************************************)
\* Identifiers and the keyword `if`, decimal and hex literals, `=`, comment
\* markers, quotes, blanks and newlines.
Alphabet == {"i", "f", "1", "x", "=", "/", "*", "\"", " ", "\n"}

Init == InitOn(Strings(Alphabet, MaxLen))

Spec == Init /\ [][Next]_vars

(***************************************************************************)
(* What a call of lex gives its caller: the kinds of the returned tokens,  *)
(* or a panic.                                                             *)
(***************************************************************************)
Kinds(ts) == [i \in 1..Len(ts) |-> ts[i].token_kind]

Panicked == <<"panic">>

\* Of a scanner state computed by Lex.
OutcomeOf(st) == IF st.fault THEN Panicked ELSE Kinds(st.tokens)

\* Of the call the state machine has finished.
Outcome == IF pc = "panic" THEN Panicked ELSE Kinds(tokens)

Finished == pc \in {"done", "panic"}

\* The index of the last double quote of t at or before k, 0 when none.
RECURSIVE LastQuote(_, _)
LastQuote(t, k) ==
    IF k = 0 THEN 0 ELSE IF t[k] = "\"" THEN k ELSE LastQuote(t, k - 1)

(***************************************************************************)
(* C1.  A String literal token's text is exactly the characters between    *)
(* its opening and its closing double quote: when the scanner has just     *)
(* read a closing quote, the last token is the Str literal whose text is   *)
(* the text strictly between that quote and the quote before it, so text   *)
(* pending when the literal opened is no part of it.                       *)
(***************************************************************************)
JustClosedString ==
    /\ pc = "scan"
    /\ idx > 2
    /\ text[idx - 1] = "\""
    /\ literal = "None"

StringTextIsBetweenQuotes ==
    JustClosedString =>
        /\ tokens # <<>>
        /\ tokens[Len(tokens)].token_kind =
              LiteralStr(SubSeq(text, LastQuote(text, idx - 2) + 1, idx - 2))

(***************************************************************************)
(* C2.  For decimal literals a and b, `a+b`, `a+b ` and `a + b` each lex   *)
(* to exactly [Integer(a), Symbol(Add), Integer(b)].  SpecSum lexes these  *)
(* three forms for all literals of at most MaxDigits digits.               *)
(***************************************************************************)
SumDigits == {"0", "1", "9"}

DecimalLiterals == Strings(SumDigits, MaxDigits) \ {<<>>}

Plus == <<"+">>

Blank == <<" ">>

SumForms(a, b) ==
    {a \o Plus \o b, a \o Plus \o b \o Blank, a \o Blank \o Plus \o Blank \o b}

SumInputs == UNION {SumForms(a, b) : a \in DecimalLiterals, b \in DecimalLiterals}

InitSum == InitOn(SumInputs)

SpecSum == InitSum /\ [][Next]_vars

\* The number a string of decimal digits denotes, from its last digit.
RECURSIVE DecimalValue(_)
DecimalValue(d) ==
    IF d = <<>> THEN 0
    ELSE 10 * DecimalValue(SubSeq(d, 1, Len(d) - 1)) + DigitVal(d[Len(d)])

SumLexesToThreeTokens ==
    pc \in {"done", "panic"} =>
        \E a \in DecimalLiterals, b \in DecimalLiterals :
            /\ input \in SumForms(a, b)
            /\ pc = "done"
            /\ Kinds(tokens) = <<LiteralInt(U64(DecimalValue(a))),
                                 Symbol("Add"),
                                 LiteralInt(U64(DecimalValue(b)))>>

SumLexed ==
    /\ pc = "done"
    /\ input = <<"1", "9", "+", "9", "0", " ">>
    /\ Len(tokens) = 3
    /\ tokens[2].token_kind = Symbol("Add")

(***************************************************************************)
(* C3.  Of the characters & | * > <, two adjacent ones give one doubled    *)
(* Symbol, two separated by a blank give two single Symbols, and a third   *)
(* adjacent one starts a new pending operator.  SpecOps lexes every text   *)
(* over these characters and the blank; what the claim says of it is       *)
(* PairedOperators: left to right, each adjacent equal pair is one doubled *)
(* token and every other operator character a single one.                  *)
(***************************************************************************)
OpsAlphabet == {"&", "|", "*", ">", "<", " "}

InitOps == InitOn(Strings(OpsAlphabet, MaxLen))

SpecOps == InitOps /\ [][Next]_vars

SingleSymbol(c) ==
    CASE c = "&" -> Symbol("BinaryAnd")
      [] c = "|" -> Symbol("BinaryOr")
      [] c = "*" -> Symbol("Mul")
      [] c = ">" -> Symbol("Gt")
      [] c = "<" -> Symbol("Lt")

DoubledSymbol(c) ==
    CASE c = "&" -> Symbol("LogicalAnd")
      [] c = "|" -> Symbol("LogicalOr")
      [] c = "*" -> Symbol("Pow")
      [] c = ">" -> Symbol("Shr")
      [] c = "<" -> Symbol("Shl")

RECURSIVE PairedOperators(_)
PairedOperators(s) ==
    IF s = <<>> THEN <<>>
    ELSE IF Head(s) = " " THEN PairedOperators(Tail(s))
    ELSE IF Len(s) >= 2 /\ s[2] = s[1]
         THEN <<DoubledSymbol(s[1])>> \o PairedOperators(Tail(Tail(s)))
         ELSE <<SingleSymbol(s[1])>> \o PairedOperators(Tail(s))

AdjacentPairsDouble ==
    pc \in {"done", "panic"} =>
        /\ pc = "done"
        /\ Kinds(tokens) = PairedOperators(input)

\* `|||`: one LogicalOr, then the third pipe alone.
ThirdOperatorStartsAnew ==
    /\ pc = "done"
    /\ input = <<"|", "|", "|">>
    /\ Kinds(tokens) = <<Symbol("LogicalOr"), Symbol("BinaryOr")>>

(***************************************************************************)
(* C4.  `0x` followed by one or more hexadecimal digits lexes to exactly   *)
(* one Integer token, whose value is the base-16 value of those digits.    *)
(* SpecHex lexes such literals of at most MaxHexDigits digits, alone or    *)
(* with a blank before and a blank or a newline after.                     *)
(***************************************************************************)
HexAlphabet == {"0", "1", "9", "a", "F"}

HexBodies == Strings(HexAlphabet, MaxHexDigits) \ {<<>>}

HexPrefix == <<"0", "x">>

HexForms(h) ==
    {pre \o HexPrefix \o h \o post :
        pre \in {<<>>, <<" ">>}, post \in {<<>>, <<" ">>, <<"\n">>}}

InitHex == InitOn(UNION {HexForms(h) : h \in HexBodies})

SpecHex == InitHex /\ [][Next]_vars

\* 16 to the power n.
RECURSIVE Pow16(_)
Pow16(n) == IF n = 0 THEN 1 ELSE 16 * Pow16(n - 1)

\* The number a string of hexadecimal digits denotes: the sum of each digit
\* times the power of 16 of its place.
RECURSIVE HexValue(_)
HexValue(h) ==
    IF h = <<>> THEN 0
    ELSE DigitVal(Head(h)) * Pow16(Len(h) - 1) + HexValue(Tail(h))

HexLiteralValue ==
    pc \in {"done", "panic"} =>
        \E h \in HexBodies :
            /\ input \in HexForms(h)
            /\ pc = "done"
            /\ Kinds(tokens) = <<LiteralInt(U64(HexValue(h)))>>

\* `0x1F` is Integer(31).
HexLexed ==
    /\ pc = "done"
    /\ input = <<"0", "x", "1", "F">>
    /\ Kinds(tokens) = <<LiteralInt(U64(31))>>

(***************************************************************************)
(* C5.  The end-of-input flush is equivalent to a trailing blank: for      *)
(* every input that does not end inside a string literal, lex of the input *)
(* and lex of the input followed by one space give the same token kinds    *)
(* (or both panic).                                                        *)
(***************************************************************************)
FlushIsTrailingBlank ==
    (Finished /\ literal # "Str") =>
        Outcome = OutcomeOf(Lex(Pos_new, input \o <<" ">>))

\* `1 if`: the input ends with a pending keyword, which the flush emits.
PendingKeywordFlushed ==
    /\ pc = "done"
    /\ input = <<"1", " ", "i", "f">>
    /\ current_identifier = <<"i", "f">>
    /\ Kinds(tokens) = <<LiteralInt(U64(1)), Keyword("If")>>

(***************************************************************************)
(* C6.  Whitespace next to a single-character delimiter is insignificant.  *)
(* SpecDelim lexes texts with a delimiter, identifiers, literals, `=`,     *)
(* the slash, quotes and whitespace.  A position is outside string literals  *)
(* when an even number of double quotes precedes it.  As the claim states  *)
(* it, of the raw input: RawWhitespaceInsignificant.  Of the               *)
(* comment-stripped text the scanner reads: WhitespaceInsignificant.       *)
(***************************************************************************)
DelimAlphabet == {"i", "1", "(", "=", "/", "\"", " ", "\n"}

InitDelim == InitOn(Strings(DelimAlphabet, MaxLen))

SpecDelim == InitDelim /\ [][Next]_vars

\* The runs of spaces, tabs and newlines that are inserted.
WhitespaceRuns == Strings({" ", "\t", "\n"}, MaxRun) \ {<<>>}

\* s with w inserted before index at.
Insert(s, at, w) == SubSeq(s, 1, at - 1) \o w \o SubSeq(s, at, Len(s))

RECURSIVE QuotesBefore(_, _)
\* The number of double quotes of s before index k.
QuotesBefore(s, k) ==
    IF k <= 1 THEN 0
    ELSE QuotesBefore(s, k - 1) + (IF s[k - 1] = "\"" THEN 1 ELSE 0)

\* The delimiters of s that are outside string literals.
FreeDelimiters(s) ==
    {k \in 1..Len(s) : s[k] \in Delimiters /\ QuotesBefore(s, k) % 2 = 0}

RawWhitespaceInsignificant ==
    Finished =>
        \A k \in FreeDelimiters(input) : \A w \in WhitespaceRuns :
            /\ OutcomeOf(Lex(Pos_new, Insert(input, k, w))) = Outcome
            /\ OutcomeOf(Lex(Pos_new, Insert(input, k + 1, w))) = Outcome

WhitespaceInsignificant ==
    Finished =>
        \A k \in FreeDelimiters(text) : \A w \in WhitespaceRuns :
            /\ OutcomeOf(Scanner(Pos_new, Insert(text, k, w))) = Outcome
            /\ OutcomeOf(Scanner(Pos_new, Insert(text, k + 1, w))) = Outcome

\* `i (1` and `i(1` lex alike: the identifier, the parenthesis, the integer.
DelimiterAfterBlankLexed ==
    /\ pc = "done"
    /\ input = <<"i", " ", "(", "1">>
    /\ Kinds(tokens) = <<Identifier(<<"i">>), Symbol("OpenParen"),
                         LiteralInt(U64(1))>>
    /\ OutcomeOf(Lex(Pos_new, <<"i", "(", "1">>)) = Kinds(tokens)

(***************************************************************************)
(* C7.  After a new Lexer has scanned a text, its row is the number of     *)
(* newline characters of the (comment-stripped) text and its column the    *)
(* number of characters after the last newline, wherever the newlines lie, *)
(* inside a string literal included.                                       *)
(***************************************************************************)
RECURSIVE Newlines(_)
\* The number of newline characters of t.
Newlines(t) ==
    IF t = <<>> THEN 0
    ELSE Newlines(Tail(t)) + (IF Head(t) = "\n" THEN 1 ELSE 0)

RECURSIVE LastNewline(_, _)
\* The index of the last newline of t at or before k, 0 when none.
LastNewline(t, k) ==
    IF k = 0 THEN 0 ELSE IF t[k] = "\n" THEN k ELSE LastNewline(t, k - 1)

RowCountsNewlines ==
    pc = "done" =>
        /\ pos.row = Newlines(text)
        /\ pos.col = Len(text) - LastNewline(text, Len(text))

(***************************************************************************)
(* The Lexers the position claim is checked on.  lex never sets pos back,   *)
(* so a Lexer is left where its earlier calls ended: a call on a run of c  *)
(* blanks leaves a new Lexer at column c and a call on r newlines leaves   *)
(* it at row r, both without a token.  UsedPositions are the new Lexer and *)
(* Lexers so left within MaxLen characters of the largest u16 column, or   *)
(* on the largest u16 row.                                                 *)
(***************************************************************************)
UsedPositions ==
    {Pos_new, [row |-> U16Max, col |-> 0]}
        \cup {[row |-> 0, col |-> U16Max - k] : k \in 0..MaxLen}

UsedAlphabet == {"a", " ", "\n"}

InitUsed ==
    /\ overflow_checks \in BOOLEAN
    /\ input \in Strings(UsedAlphabet, MaxLen)
    /\ text = <<>>
    /\ idx = 0
    /\ tokens = <<>>
    /\ current_identifier = <<>>
    /\ literal = "None"
    /\ integer_base = 10
    /\ pos \in UsedPositions
    /\ pc = "start"
    /\ calls = 0
    /\ NoGeneration

SpecUsed == InitUsed /\ [][Next]_vars

PosLeq(p, q) == p.row < q.row \/ (p.row = q.row /\ p.col <= q.col)

PositionsNeverDecrease ==
    \A i \in 1..Len(tokens) : \A j \in i..Len(tokens) :
        PosLeq(tokens[i].pos, tokens[j].pos)

\* The position a token completed by this step must carry.
CompletionPos ==
    IF idx <= Len(text)
    THEN [row |-> pos.row, col |-> (pos.col + 1) % (U16Max + 1)]
    ELSE pos

PushedAtCompletion ==
    pc = "scan" =>
        /\ Len(tokens') >= Len(tokens)
        /\ SubSeq(tokens', 1, Len(tokens)) = tokens
        /\ \A i \in (Len(tokens) + 1)..Len(tokens') :
              tokens'[i].pos = CompletionPos

(***************************************************************************)
(* C8.  Every token carries the scanner's position as it was when the      *)
(* token was completed: a token pushed while a character is scanned has    *)
(* the row the scanner had before that character and the column after      *)
(* counting it, a token pushed by the end-of-input flush has the final     *)
(* position; and within one call of lex the positions of the tokens never  *)
(* decrease in (row, column) lexicographic order.                          *)
(***************************************************************************)
TokenPositions == [][PushedAtCompletion]_vars /\ []PositionsNeverDecrease

\* A token completed by a newline carries the row the newline ends, and a
\* later token the next row.
TokensOnTwoRows ==
    /\ pc = "done"
    /\ input = <<"i", "\n", "i", "f">>
    /\ Len(tokens) = 2
    /\ tokens[1].pos = [row |-> 0, col |-> 2]
    /\ tokens[2].pos = [row |-> 1, col |-> 2]

(***************************************************************************)
(* SpecStrip lexes every text of at most MaxCommentLen comment markers and *)
(* newlines.                                                               *)
(***************************************************************************)
StripAlphabet == {"/", "*", "\n"}

InitStrip == InitOn(Strings(StripAlphabet, MaxCommentLen))

SpecStrip == InitStrip /\ [][Next]_vars

(***************************************************************************)
(* C9.  Comment stripping is idempotent: stripping the stripped text       *)
(* again changes nothing.                                                  *)
(***************************************************************************)
StripIdempotent == pc # "start" => strip_comments(text) = text

(***************************************************************************)
(* C10.  An unterminated block comment (a slash-star with no later         *)
(* star-slash) is removed together with everything after it, and an        *)
(* unterminated line comment is removed up to the end of the input: when   *)
(* the first comment of the input is unterminated, the scanner reads the   *)
(* text before it and nothing else.                                        *)
(***************************************************************************)
OpensBlock(s, k) == k + 1 <= Len(s) /\ s[k] = "/" /\ s[k + 1] = "*"

ClosesBlock(s, k) == k + 1 <= Len(s) /\ s[k] = "*" /\ s[k + 1] = "/"

OpensLine(s, k) == k + 1 <= Len(s) /\ s[k] = "/" /\ s[k + 1] = "/"

\* Whether a comment of either kind opens at k.
OpensComment(s, k) == OpensBlock(s, k) \/ OpensLine(s, k)

\* Whether the first comment of s opens at k, so that it lies in no other.
FirstComment(s, k) == OpensComment(s, k) /\ \A j \in 1..(k - 1) : ~OpensComment(s, j)

\* Whether the comment that opens at k is never closed.
Unterminated(s, k) ==
    IF OpensLine(s, k)
    THEN \A j \in (k + 2)..Len(s) : s[j] \notin {"\n", "\r"}
    ELSE \A j \in (k + 2)..Len(s) : ~ClosesBlock(s, j)

UnterminatedLineRemoved ==
    pc # "start" =>
        \A k \in 1..Len(input) :
            (FirstComment(input, k) /\ OpensLine(input, k)
                /\ Unterminated(input, k))
            => text = SubSeq(input, 1, k - 1)

UnterminatedBlockRemoved ==
    pc # "start" =>
        \A k \in 1..Len(input) :
            (FirstComment(input, k) /\ OpensBlock(input, k)
                /\ Unterminated(input, k))
            => text = SubSeq(input, 1, k - 1)

UnterminatedCommentRemoved ==
    UnterminatedBlockRemoved /\ UnterminatedLineRemoved

(***************************************************************************)
(* C11.  strip_comments deletes exactly the comment spans.  When the only  *)
(* comment of a text is a line comment, the span from its // up to, not    *)
(* including, the next end of line (or the end of the input) is removed;   *)
(* when it is a terminated block comment, the span from its slash-star     *)
(* through the first following star-slash is removed; every other          *)
(* character stays, in order.                                              *)
(***************************************************************************)
RECURSIVE LineEnd(_, _)
\* The index of the first end of line of s at or after j, Len(s) + 1 if none.
LineEnd(s, j) ==
    IF j > Len(s) \/ s[j] \in {"\n", "\r"} THEN j ELSE LineEnd(s, j + 1)

RECURSIVE BlockClose(_, _)
\* The index of the first star-slash of s at or after j, 0 if none.
BlockClose(s, j) ==
    IF j + 1 > Len(s) THEN 0
    ELSE IF ClosesBlock(s, j) THEN j ELSE BlockClose(s, j + 1)

\* s without its characters from index a to index b.
Without(s, a, b) == SubSeq(s, 1, a - 1) \o SubSeq(s, b + 1, Len(s))

\* Whether no comment opens in s at or after index j.
NoCommentFrom(s, j) == \A i \in j..Len(s) : ~OpensComment(s, i)

\* The first comment of the input is a line comment at k, and the only one.
OnlyLineComment(k) ==
    /\ FirstComment(input, k)
    /\ OpensLine(input, k)
    /\ NoCommentFrom(input, LineEnd(input, k + 2))

\* The first comment of the input is a terminated block comment at k, and
\* the only one.
OnlyBlockComment(k) ==
    /\ FirstComment(input, k)
    /\ OpensBlock(input, k)
    /\ BlockClose(input, k + 2) # 0
    /\ NoCommentFrom(SubSeq(input, BlockClose(input, k + 2) + 2, Len(input)), 1)

OnlyLineCommentRemoved ==
    pc # "start" =>
        \A k \in 1..Len(input) :
            OnlyLineComment(k) =>
                text = Without(input, k, LineEnd(input, k + 2) - 1)

OnlyBlockCommentRemoved ==
    pc # "start" =>
        \A k \in 1..Len(input) :
            OnlyBlockComment(k) =>
                text = Without(input, k, BlockClose(input, k + 2) + 1)

ExactlyCommentSpansRemoved == OnlyLineCommentRemoved /\ OnlyBlockCommentRemoved

(***************************************************************************)
(* Inputs of assignment and comparison operators around an operand.        *)
(***************************************************************************)
CompoundAlphabet == {"=", "+", "-", "*", "/", "<", ">", "a"}

InitCompound == InitOn(Strings(CompoundAlphabet, MaxLen))

SpecCompound == InitCompound /\ [][Next]_vars

\* The Symbol variant of the operator made of c followed by =.
CompoundSymbol(c) ==
    CASE c = "=" -> Symbol("DoubleEqual")
      [] c = "+" -> Symbol("AddAssign")
      [] c = "-" -> Symbol("SubAssign")
      [] c = "*" -> Symbol("MulAssign")
      [] c = "/" -> Symbol("DivAssign")
      [] c = "<" -> Symbol("LtEq")
      [] c = ">" -> Symbol("GtEq")

\* The scanner, outside a literal, is about to read an = while the pending
\* buffer is one of the seven characters that = completes.
EqualCompletes ==
    /\ pc = "scan"
    /\ idx <= Len(text)
    /\ text[idx] = "="
    /\ literal = "None"
    /\ current_identifier \in CompoundHeads

(***************************************************************************)
(* C17.  An = that arrives while the pending buffer is exactly one of      *)
(* = + - * / < > makes the scanner emit one Symbol token for the compound  *)
(* operator and clear the buffer; the two characters are never emitted as  *)
(* an Identifier token.                                                    *)
(***************************************************************************)
CompoundIsOneSymbol ==
    EqualCompletes =>
        /\ current_identifier' = <<>>
        /\ Len(tokens') = Len(tokens) + 1
        /\ tokens'[Len(tokens')].token_kind =
               CompoundSymbol(current_identifier[1])

CompoundOperatorsAreSymbols == [][CompoundIsOneSymbol]_vars

(***************************************************************************)
(* Inputs of integer literals with base markers and hex letters.           *)
(***************************************************************************)
RadixAlphabet == {"0", "1", "x", "F", " "}

InitRadix == InitOn(Strings(RadixAlphabet, MaxLen))

SpecRadix == InitRadix /\ [][Next]_vars

\* The scanner, inside an integer literal, is about to read an x.
BaseMarkerArrives ==
    /\ pc = "scan"
    /\ idx <= Len(text)
    /\ text[idx] = "x"
    /\ literal = "Int"

(***************************************************************************)
(* C18.  Inside an integer literal an x is accepted only immediately after *)
(* a single leading 0, where it switches the literal to base 16; an x      *)
(* anywhere else in the literal (after another digit, after several        *)
(* digits, a second x) is a fatal fault and yields no Integer token.       *)
(***************************************************************************)
BaseMarkerStep ==
    BaseMarkerArrives =>
        IF current_identifier = <<"0">> /\ integer_base = 10
        THEN pc' = "scan" /\ integer_base' = 16 /\ tokens' = tokens
        ELSE pc' = "panic"

BaseMarkerOnlyAfterLeadingZero == [][BaseMarkerStep]_vars

(***************************************************************************)
(* Inputs of a hex literal, one separator and a second run of digits and   *)
(* hex letters.                                                            *)
(***************************************************************************)
BaseDigits == {"0", "1", "F"}

Separators == {" ", "\n", ";"}

BaseForms ==
    {HexPrefix \o h \o <<sep>> \o d :
        h \in Strings(BaseDigits, MaxHexDigits) \ {<<>>},
        sep \in Separators,
        d \in Strings(BaseDigits, MaxDigits)}

InitBase == InitOn(BaseForms)

SpecBase == InitBase /\ [][Next]_vars

\* The index of the separator of the input.
SeparatorAt == CHOOSE i \in 1..Len(input) : input[i] \in Separators

\* The digits of the hex literal before the separator.
FirstLiteral == SubSeq(input, 3, SeparatorAt - 1)

\* The characters after the separator.
SecondLiteral == SubSeq(input, SeparatorAt + 1, Len(input))

\* The tokens of the separator itself.
SeparatorKinds ==
    IF input[SeparatorAt] = ";" THEN <<Symbol("SemiColon")>> ELSE <<>>

BaseTenOutsideLiterals == literal # "Int" => integer_base = 10

\* A second literal of decimal digits is read in base 10, and one that
\* starts with a digit and holds a hex letter is a fault.
LaterLiteralInBaseTen ==
    Finished =>
        LET d == SecondLiteral
        IN  /\ (d # <<>> /\ \A i \in 1..Len(d) : d[i] \in Digits) =>
                   Outcome = <<LiteralInt(U64(HexValue(FirstLiteral)))>>
                             \o SeparatorKinds
                             \o <<LiteralInt(U64(DecimalValue(d)))>>
            /\ (d # <<>> /\ d[1] \in Digits
                    /\ \E i \in 1..Len(d) : d[i] \in HexLetters) =>
                   Outcome = Panicked

(***************************************************************************)
(* C19.  The integer base is 10 whenever the scanner is not inside an      *)
(* integer literal: closing a hex literal resets the base, so a later      *)
(* literal of decimal digits has its decimal value (0x10 10 lexes to the   *)
(* integers 16 and 10) and a hex letter in a later literal is a fault.     *)
(***************************************************************************)
BaseResetAfterHex == BaseTenOutsideLiterals /\ LaterLiteralInBaseTen

\* 0x10 10 has been lexed to the integers 16 and 10.
HexThenDecimalLexed ==
    /\ pc = "done"
    /\ input = <<"0", "x", "1", "0", " ", "1", "0">>
    /\ integer_base = 10
    /\ Kinds(tokens) = <<LiteralInt(U64(16)), LiteralInt(U64(10))>>

(***************************************************************************)
(* Inputs of one integer literal around the largest u64: the leading       *)
(* digits of u64::MAX, or none, followed by a few more digits.             *)
(***************************************************************************)
MaxTail == 2

DecHead == SubSeq(U64MaxDec, 1, 18)

HexHead == SubSeq(U64MaxHex, 1, 15)

WideLiterals ==
    {z \o DecHead \o t :
        z \in {<<>>, <<"0">>},
        t \in Strings({"0", "1", "5", "6", "9"}, MaxTail)}
    \cup {HexPrefix \o hd \o t :
            hd \in {<<>>, HexHead}, t \in Strings({"0", "F"}, MaxTail)}

InitWide ==
    InitOn({w \o post : w \in WideLiterals, post \in {<<>>, <<" ">>}})

SpecWide == InitWide /\ [][Next]_vars

\* The literal of the input, without the blank that may follow it.
WideLiteral ==
    IF input[Len(input)] = " " THEN SubSeq(input, 1, Len(input) - 1) ELSE input

IsHexForm(w) == Len(w) >= 2 /\ SubSeq(w, 1, 2) = HexPrefix

\* The digits of a literal and the base they are written in.
DigitsOf(w) == IF IsHexForm(w) THEN SubSeq(w, 3, Len(w)) ELSE w

BaseOf(w) == IF IsHexForm(w) THEN 16 ELSE 10

RECURSIVE Exact(_, _)
\* The number a digit string denotes, of any size, from its last digit.
Exact(d, base) ==
    IF d = <<>> THEN U64(0)
    ELSE MulAdd(Exact(SubSeq(d, 1, Len(d) - 1), base), base,
                DigitVal(d[Len(d)]))

RECURSIVE Greater(_, _, _)
\* Of two numbers of i digits each, whether v is the greater.
Greater(v, w, i) ==
    IF i = 0 THEN FALSE
    ELSE IF v[i] # w[i] THEN v[i] > w[i] ELSE Greater(v, w, i - 1)

\* Whether the number v is above the number w.
Exceeds(v, w) ==
    \/ Len(v) > Len(w)
    \/ Len(v) = Len(w) /\ Greater(v, w, Len(v))

\* Whether a literal has no value in u64.
Unparsable(w) ==
    \/ DigitsOf(w) = <<>>
    \/ Exceeds(Exact(DigitsOf(w), BaseOf(w)), Exact(U64MaxDec, 10))

(***************************************************************************)
(* C20.  An integer literal that has no value in u64 in its base (a value  *)
(* above 2^64 - 1, or no digit after the 0x prefix) aborts the scan; the   *)
(* scanner never emits an Integer token with a wrapped, truncated or       *)
(* default value: a token it emits holds the exact value of the literal.   *)
(***************************************************************************)
UnparsableLiteralAborts ==
    Finished =>
        IF Unparsable(WideLiteral)
        THEN pc = "panic"
        ELSE /\ pc = "done"
             /\ Kinds(tokens) =
                    <<LiteralInt(Exact(DigitsOf(WideLiteral),
                                       BaseOf(WideLiteral)))>>

\* The scan of 18446744073709551616, one above u64::MAX, has aborted.
OneAboveMaxAborted ==
    /\ pc = "panic"
    /\ input = DecHead \o <<"1", "6">>
    /\ Kinds(tokens) = <<>>

(***************************************************************************)
(* Inputs of words separated by single spaces.  A word is an identifier,   *)
(* a keyword, a boolean or integer literal, or an operator symbol.         *)
(***************************************************************************)
MaxWords == 3

\* The spellings TokenKind::new knows, but for the double quote, which
\* opens a string literal.
Spellings ==
    {<<"f", "n">>, <<"l", "e", "t">>, <<"c", "o", "n", "s", "t">>,
     <<"f", "o", "r">>, <<"w", "h", "i", "l", "e">>, <<"l", "o", "o", "p">>,
     <<"r", "e", "t", "u", "r", "n">>, <<"i", "f">>, <<"e", "l", "s", "e">>,
     <<"i", "n">>, <<"{">>, <<"}">>, <<"(">>, <<")">>, <<"=">>, <<"=", "=">>,
     <<";">>, <<"'">>, <<"+">>, <<"-">>, <<"*">>, <<"/">>, <<"*", "*">>,
     <<"+", "=">>, <<"-", "=">>, <<">">>, <<"<">>, <<">", "=">>,
     <<"<", "=">>, <<">", ">">>, <<"<", "<">>, <<"^">>, <<"&">>, <<"|">>,
     <<"&", "&">>, <<"|", "|">>, <<"t", "r", "u", "e">>,
     <<"f", "a", "l", "s", "e">>}

\* Words the table does not know: identifiers, integers, other operators.
OtherWords ==
    {<<"a">>, <<"i", "f", "f">>, <<"x", "1">>, <<"0">>, <<"1", "0">>,
     <<"0", "0", "7">>, <<"0", "x", "1", "F">>, <<"*", "=">>, <<"/", "=">>,
     <<"!", "=">>, <<"+", "-">>}

\* The words of the inputs of several words.
CommonWords ==
    {<<"a">>, <<"i", "f">>, <<"1", "0">>, <<"0", "x", "1", "F">>, <<"=">>,
     <<"=", "=">>, <<"*", "=">>, <<"*">>, <<"/">>, <<"&", "&">>}

RECURSIVE JoinWords(_)
\* The words of ws in order, one space between neighbours.
JoinWords(ws) ==
    IF ws = <<>> THEN <<>>
    ELSE IF Len(ws) = 1 THEN ws[1]
    ELSE ws[1] \o <<" ">> \o JoinWords(Tail(ws))

InitWords ==
    InitOn(Spellings \cup OtherWords
           \cup {JoinWords(ws) : ws \in Strings(CommonWords, MaxWords)})

SpecWords == InitWords /\ [][Next]_vars

\* The canonical text of a token kind: the text of an identifier, the
\* decimal digits of an integer, else the spelling TokenKind::new gives
\* the kind to.
CanonicalText(k) ==
    CASE k.kind = "Identifier" -> k.text
      [] k.kind = "Int" -> to_string(k.int)
      [] OTHER -> CHOOSE t \in Spellings : TokenKind_new(t) = k

\* The canonical texts of the token kinds ks, joined by single spaces.
Rejoined(ks) == JoinWords([i \in 1..Len(ks) |-> CanonicalText(ks[i])])

(***************************************************************************)
(* C12.  Round trip on token kinds: when an input of identifiers,          *)
(* keywords, integer literals and operator symbols separated by single     *)
(* spaces has been lexed, joining the canonical text of each token with    *)
(* single spaces and lexing that again gives the same sequence of kinds.   *)
(***************************************************************************)
RoundTripKeepsKinds ==
    pc = "done" =>
        OutcomeOf(Lex(Pos_new, Rejoined(Kinds(tokens)))) = Kinds(tokens)

\* a *= 0x1F has been lexed; its tokens are rejoined as a *= 31.
HexAssignmentRejoined ==
    /\ pc = "done"
    /\ input = <<"a", " ", "*", "=", " ", "0", "x", "1", "F">>
    /\ Kinds(tokens) = <<Identifier(<<"a">>), Identifier(<<"*", "=">>),
                         LiteralInt(U64(31))>>
    /\ Rejoined(Kinds(tokens)) = <<"a", " ", "*", "=", " ", "3", "1">>

(***************************************************************************)
(* The code generation as a state machine: a tree is built from a leaf by  *)
(* wrapping it in parent nodes, one of the four methods of the Compile     *)
(* capability is called on it as an Expr, and the call returns text or     *)
(* panics.  The trees are those of depth up to MaxDepth along one path,    *)
(* with an integer constant for every other child.                         *)
(***************************************************************************)
MaxDepth == 2

\* The values of the target selector: the dialect that is implemented and
\* the three that are reserved.
Targets == {"Batch", "Asm", "Dos", "Bash"}

Atom == Expr_Int(U64(1))

Leaves ==
    {Atom, Expr_Int(U64(0)), Expr_Int(U64(10)), Expr_Str(<<"s">>),
     Expr_Variable(<<"x">>), Expr_Literal("Bool(true)"), Expr_Continue,
     Expr_Break, Expr_Block(<<>>), Expr_FuncCall(<<"f">>, <<>>)}

\* The sequences of up to two children that hold c, the others Atom.
Around(c) == {<<c>>, <<Atom, c>>, <<c, Atom>>}

\* The nodes with one child drawn from S and Atom for every other child.
Wrap(S) ==
    UNION {
        {Expr_Unary(op, c) : op \in {"Minus", "LogicalNot", "BitwiseNot"}}
        \cup {Expr_Binary(op, k[1], k[2]) :
                 op \in {"Add", "Eq"}, k \in {<<c, Atom>>, <<Atom, c>>}}
        \cup {Expr_Return(c), Expr_ConstDecl(<<"c">>, c),
              Expr_FuncDef(<<"f">>, <<<<"p">>>>, c), Expr_Loop(c),
              Expr_If(c, Atom, Atom), Expr_If(Atom, c, Atom),
              Expr_If(Atom, Atom, c), Expr_While(c, Atom),
              Expr_While(Atom, c), Expr_For(<<"i">>, c, Atom),
              Expr_For(<<"i">>, Atom, c)}
        \cup {Expr_VariableDecl(n, c) : n \in {<<"x">>, <<"n", "1">>}}
        \cup {Expr_FuncCall(<<"f">>, ps) : ps \in Around(c)}
        \cup {Expr_Block(cs) : cs \in Around(c)}
        : c \in S}

RECURSIVE Depth(_)
\* The number of nodes above the deepest leaf of e.
Depth(e) ==
    IF e \in Leaves THEN 0
    ELSE 1 + (CHOOSE m \in {Depth(e.kids[i]) : i \in 1..Len(e.kids)} :
                 \A i \in 1..Len(e.kids) : Depth(e.kids[i]) <= m)

InitGen ==
    /\ overflow_checks \in BOOLEAN
    /\ input = <<>>
    /\ text = <<>>
    /\ idx = 0
    /\ tokens = <<>>
    /\ current_identifier = <<>>
    /\ literal = "None"
    /\ integer_base = 10
    /\ pos = Pos_new
    /\ pc = "start"
    /\ calls = 0
    /\ node \in Leaves
    /\ target = "Batch"
    /\ entry = ""
    /\ out = <<>>
    /\ gpc = "ready"
    /\ operator = NoOperator

\* The call has returned r or panicked.
Returns(r) ==
    /\ out' = r.text
    /\ gpc' = IF r.ok THEN "done" ELSE "panic"

\* The tree becomes the child of a new node.
Grow ==
    /\ gpc = "ready"
    /\ Depth(node) < MaxDepth
    /\ node' \in Wrap({node})
    /\ UNCHANGED <<target, entry, out, gpc, operator, lvars, overflow_checks>>

\* node.compile(&t), for a target selector t.
Compile ==
    /\ gpc = "ready"
    /\ \E t \in Targets :
          /\ target' = t
          /\ Returns(Expr_compile(node, t))
    /\ entry' = "compile"
    /\ UNCHANGED <<node, operator, lvars, overflow_checks>>

\* node.compile_asm().
CompileAsm ==
    /\ gpc = "ready"
    /\ target' = "Asm"
    /\ Returns(compile_asm(node))
    /\ entry' = "compile_asm"
    /\ UNCHANGED <<node, operator, lvars, overflow_checks>>

\* node.compile_dos().
CompileDos ==
    /\ gpc = "ready"
    /\ target' = "Dos"
    /\ Returns(compile_dos(node))
    /\ entry' = "compile_dos"
    /\ UNCHANGED <<node, operator, lvars, overflow_checks>>

\* node.compile_bash().
CompileBash ==
    /\ gpc = "ready"
    /\ target' = "Bash"
    /\ Returns(compile_bash(node))
    /\ entry' = "compile_bash"
    /\ UNCHANGED <<node, operator, lvars, overflow_checks>>

NextGen == Grow \/ Compile \/ CompileAsm \/ CompileDos \/ CompileBash

SpecGen == InitGen /\ [][NextGen]_vars

\* The call of a render method has ended.
Rendered == gpc \in {"done", "panic"}

(***************************************************************************)
(* C13.  Rendering a bare loop, as an Expr through Expr::compile like      *)
(* every other node, returns the loop label, then the rendered body, then  *)
(* the unconditional jump back to the label.                               *)
(***************************************************************************)
BareLoopRendersLabelBodyJump ==
    (Rendered /\ entry = "compile" /\ node.kind = "Loop") =>
        LET body == Expr_compile(node.kids[1], target)
        IN  body.ok =>
                /\ gpc = "done"
                /\ out = <<":", "L", "O", "O", "P", "\n">> \o body.text
                         \o <<"\n", "g", "o", "t", "o", " ",
                              ":", "L", "O", "O", "P">>

\* The node kinds whose arm of Expr::compile has no renderer.
Unrenderable ==
    {"Return", "ConstDecl", "FuncDef", "While", "Continue", "Break"}

(***************************************************************************)
(* C14.  Rendering a node of kind Return, constant declaration, function   *)
(* definition, while loop, continue or break always fails fatally and      *)
(* returns no text, whatever the children of the node are.                 *)
(***************************************************************************)
UnrenderableKindsPanic ==
    (Rendered /\ node.kind \in Unrenderable) => gpc = "panic" /\ out = <<>>

\* Rendering a Return of a renderable expression has panicked.
ReturnOfConstantPanicked ==
    /\ gpc = "panic"
    /\ entry = "compile"
    /\ target = "Batch"
    /\ node = Expr_Return(Atom)

(***************************************************************************)
(* C15.  For every node type, rendering with a target selector that names  *)
(* a dialect other than the implemented batch dialect fails with the       *)
(* not-supported signal and returns no text.                               *)
(***************************************************************************)
OtherDialectsPanic ==
    (Rendered /\ target # "Batch") => gpc = "panic" /\ out = <<>>

\* The three methods of the reserved dialects panic on every node.
DialectMethodsPanic ==
    (Rendered /\ entry # "compile") => gpc = "panic" /\ out = <<>>

(***************************************************************************)
(* C16.  Rendering a variable declaration with name n and initializer e    *)
(* returns exactly "set ", n, "=", the rendering of e and a line break,    *)
(* for every name and every renderable initializer.                        *)
(***************************************************************************)
VariableDeclRendersSet ==
    (Rendered /\ entry = "compile" /\ node.kind = "VariableDecl") =>
        LET e == Expr_compile(node.kids[1], target)
        IN  e.ok =>
                /\ gpc = "done"
                /\ out = <<"s", "e", "t", " ">> \o node.name \o <<"=">>
                         \o e.text \o <<"\n">>

\* The declaration of x with the integer constant 1 has rendered set x=1
\* and a line break.
SetXRendered ==
    /\ gpc = "done"
    /\ node = Expr_VariableDecl(<<"x">>, Atom)
    /\ out = <<"s", "e", "t", " ", "x", "=", "1", "\n">>

(***************************************************************************)
(* Inputs of one block comment, with line-comment markers, stars and       *)
(* blanks in its body, between a little text.                              *)
(***************************************************************************)
OrderForms ==
    {pre \o <<"/", "*">> \o body \o <<"*", "/">> \o post :
        pre \in {<<>>, <<"a">>},
        body \in Strings({"/", "*", " "}, MaxLen),
        post \in Strings({"b", "/", "\n"}, 2)}

InitOrder == InitOn(OrderForms)

SpecOrder == InitOrder /\ [][Next]_vars

\* Whether t starts with p.
StartsWith(t, p) == Len(p) <= Len(t) /\ SubSeq(t, 1, Len(p)) = p

\* The first comment of the input is a terminated block comment at k with
\* a // in its body, and no comment opens in the rest of the line after it.
LineMarkerInsideBlock(k) ==
    /\ FirstComment(input, k)
    /\ OpensBlock(input, k)
    /\ BlockClose(input, k + 2) # 0
    /\ \E i \in (k + 2)..(BlockClose(input, k + 2) - 2) : OpensLine(input, i)
    /\ LET c == BlockClose(input, k + 2) + 2
       IN  NoCommentFrom(SubSeq(input, c, LineEnd(input, c) - 1), 1)

(***************************************************************************)
(* C21.  Block comments are removed before line comments: a // inside a    *)
(* terminated block comment starts no line comment, so the text before     *)
(* the comment and the text after its closing star-slash on the same line  *)
(* are kept, the comment alone being removed.                              *)
(***************************************************************************)
BlockRemovedBeforeLine ==
    pc # "start" =>
        \A k \in 1..Len(input) :
            LineMarkerInsideBlock(k) =>
                LET c == BlockClose(input, k + 2) + 2
                IN  StartsWith(text,
                               SubSeq(input, 1, k - 1)
                               \o SubSeq(input, c, LineEnd(input, c) - 1))

\* a/* // */b has been stripped to ab.
LineMarkerInBlockStripped ==
    /\ pc # "start"
    /\ input = <<"a", "/", "*", " ", "/", "/", " ", "*", "/", "b">>
    /\ text = <<"a", "b">>

RECURSIVE Lines(_)
\* The texts ts, each after the first on a new line.
Lines(ts) ==
    IF ts = <<>> THEN <<>>
    ELSE LET front == SubSeq(ts, 1, Len(ts) - 1)
         IN  Lines(front) \o (IF front = <<>> THEN <<>> ELSE <<"\n">>)
             \o ts[Len(ts)]

(***************************************************************************)
(* C22.  A Block renders as the renderings of its children in stored       *)
(* order, with exactly one line break between consecutive children: no     *)
(* child is skipped or duplicated, a block of one child renders as that    *)
(* child's text and an empty block as the empty text.                      *)
(***************************************************************************)
BlockRendersChildrenInOrder ==
    (Rendered /\ entry = "compile" /\ node.kind = "Block") =>
        LET rs == [i \in 1..Len(node.kids) |->
                      Expr_compile(node.kids[i], target)]
        IN  (\A i \in 1..Len(rs) : rs[i].ok) =>
                /\ gpc = "done"
                /\ out = Lines([i \in 1..Len(rs) |-> rs[i].text])
                /\ Len(rs) = 0 => out = <<>>
                /\ Len(rs) = 1 => out = rs[1].text
                /\ Len(rs) = 2 => out = rs[1].text \o <<"\n">> \o rs[2].text

\* The block of the constant 1 and the variable x has rendered 1, a line
\* break and x.
TwoChildBlockRendered ==
    /\ gpc = "done"
    /\ node = Expr_Block(<<Atom, Expr_Variable(<<"x">>)>>)
    /\ out = <<"1", "\n", "x">>

(***************************************************************************)
(* Tokens handed to the parser: one word, or one string literal, is lexed  *)
(* and BinaryOpKind::from_token is called on a token of the result.        *)
(***************************************************************************)
InitTokens ==
    InitOn(Spellings \cup OtherWords \cup {<<"\"", "s", "\"">>})

\* BinaryOpKind::from_token(&tokens[i].token_kind), for a token of the call.
FromToken ==
    /\ pc = "done"
    /\ ~operator.called
    /\ \E i \in 1..Len(tokens) :
          operator' =
              [called |-> TRUE, arg |-> tokens[i].token_kind,
               result |-> BinaryOpKind_from_token(tokens[i].token_kind)]
    /\ UNCHANGED <<lvars, node, target, entry, out, gpc, overflow_checks>>

NextTokens == Strip \/ Scan \/ Flush \/ FromToken

SpecTokens == InitTokens /\ [][NextTokens]_vars

\* The binary operator a symbol of the scanner names, "" when none.
OperatorOf(name) ==
    CASE name = "Equal" -> "Assign"
      [] name = "DoubleEqual" -> "Eq"
      [] name \in {"Add", "Sub", "Mul", "Div", "Gt", "Lt", "GtEq", "LtEq",
                   "Shr", "Shl", "Xor", "LogicalAnd", "LogicalOr",
                   "BinaryAnd", "BinaryOr"} -> name
      [] OTHER -> ""

(***************************************************************************)
(* C23.  BinaryOpKind::from_token returns the matching operator for every  *)
(* symbol token of the scanner that names a binary operator, = (Assign)    *)
(* and == (Eq) included, and an error value for every other token:         *)
(* "unexpected symbol type" for a symbol with no binary operator,          *)
(* "unexpected token type" for identifiers, keywords and literals.         *)
(***************************************************************************)
FromTokenMatchesScanner ==
    operator.called =>
        LET t == operator.arg
            r == operator.result
        IN  IF t.kind # "Symbol"
            THEN ~r.ok /\ r.err = "unexpected token type"
            ELSE IF OperatorOf(t.name) = ""
            THEN ~r.ok /\ r.err = "unexpected symbol type"
            ELSE r.ok /\ r.op = OperatorOf(t.name)

(***************************************************************************)
(* One Lexer used for several calls of lex, one after the other.  The      *)
(* locals of lex are set up anew by every call; the Lexer keeps pos.       *)
(***************************************************************************)
MaxCalls == 2

AgainInputs == Strings({"a", "1", "\n"}, MaxRun)

InitAgain == InitOn(AgainInputs)

\* lex has returned and is called again, on another input.
Again ==
    /\ pc = "done"
    /\ calls + 1 < MaxCalls
    /\ calls' = calls + 1
    /\ input' \in AgainInputs
    /\ text' = <<>>
    /\ idx' = 0
    /\ pc' = "start"
    /\ UNCHANGED <<tokens, current_identifier, literal, integer_base, pos,
                   gvars, overflow_checks>>

NextAgain == Strip \/ Scan \/ Flush \/ Again

SpecAgain == InitAgain /\ [][NextAgain]_vars

(***************************************************************************)
(* C24.  Lexing does not depend on what the same Lexer lexed before: a     *)
(* call of lex on a Lexer that has lexed another input returns the tokens, *)
(* positions included, that a new Lexer returns for the input.             *)
(***************************************************************************)
LexIndependentOfEarlierCalls ==
    pc = "done" => tokens = Lex(Pos_new, input).tokens

RECURSIVE ContainsUnrenderable(_)
\* Whether e or a node below it is of a kind that has no renderer.
ContainsUnrenderable(e) ==
    \/ e.kind \in Unrenderable
    \/ \E i \in 1..Len(e.kids) : ContainsUnrenderable(e.kids[i])

(***************************************************************************)
(* C25.  Rendering a tree fails whenever a node anywhere in the tree is of *)
(* a kind that has no renderer: no tree that holds a Return, a constant    *)
(* declaration, a function definition, a while loop, a continue or a       *)
(* break, at any depth and under any parent, an argument of a function     *)
(* call included, renders to text.                                         *)
(***************************************************************************)
UnrenderableAnywherePanics ==
    (Rendered /\ ContainsUnrenderable(node)) => gpc = "panic" /\ out = <<>>

\* The characters that end a pending buffer.
Breakers == Blanks \cup {"\n", "\""} \cup Delimiters \cup Digits

\* Inputs with identifier letters, a sign, digits, blanks, quotes and one
\* more of the breaking characters.
BreakInputs ==
    UNION {Strings({"a", "+", "1", " ", "\""} \cup {c}, MaxLen) :
              c \in Breakers}

InitBreak == InitOn(BreakInputs)

SpecBreak == InitBreak /\ [][Next]_vars

\* No character of t is a breaking character.
Unbroken(t) == \A j \in 1..Len(t) : t[j] \notin Breakers

(***************************************************************************)
(* C26.  After any input, no Identifier token returned by lex has empty    *)
(* text, or text holding a space, a tab, a carriage return, a newline, one *)
(* of the delimiters { } ( ) ; ^, a double quote or a decimal digit; and   *)
(* outside a literal none of these characters is ever in the pending       *)
(* buffer: they end it instead of joining it.                              *)
(***************************************************************************)
IdentifiersHoldNoBreaker ==
    /\ \A i \in 1..Len(tokens) :
           tokens[i].token_kind.kind = "Identifier"
               => /\ tokens[i].token_kind.text # <<>>
                  /\ Unbroken(tokens[i].token_kind.text)
    /\ (pc = "scan" /\ literal = "None") => Unbroken(current_identifier)

\* a1;a gives Identifier(a), Int 1, the Symbol of `;`, Identifier(a).
IdentifierBrokenByDigitAndDelimiter ==
    /\ pc = "done"
    /\ input = <<"a", "1", ";", "a">>
    /\ Len(tokens) = 4
    /\ tokens[1].token_kind = Identifier(<<"a">>)
    /\ tokens[2].token_kind = LiteralInt(U64(1))
    /\ tokens[3].token_kind = Symbol("SemiColon")
    /\ tokens[4].token_kind = Identifier(<<"a">>)

====
